---- MODULE Spec2Model ----
(***************************************************************************)
(* The Kafka sink of src/sinks/kafka/sink.rs: KafkaSink::run_inner turns   *)
(* the input stream of events into publish requests and drives them        *)
(* through a concurrency-limited KafkaService.                             *)
(*                                                                         *)
(*   input -> filter_map(render topic) -> request_builder(limit, builder)  *)
(*         -> filter_map(build errors) -> into_driver(service).run()       *)
(*                                                                         *)
(* An event is identified by its position in the input stream (its id).    *)
(* The variables events, diags, built, calls and outcome record what       *)
(* happened to each event; the others are the state of the pipeline.       *)
(*                                                                         *)
(* healthcheck (sink.rs:111-136) is a separate one-shot operation with its *)
(* own variables (named hc_...) and its own specification, HealthSpec.     *)
(***************************************************************************)
EXTENDS Integers, Sequences, FiniteSets

(* Length of the longest input stream explored. *)
NumEvents == 3

(* Capacity given to the ConcurrencyLimit around the service.  run_inner   *)
(* passes 64 (sink.rs:68); the limiter's behaviour does not depend on the  *)
(* value, and the model instantiates it with a capacity small enough for   *)
(* NumEvents requests to exhaust it.                                       *)
Capacity == 2

(* Value of default_request_builder_concurrency_limit() (sink.rs:93).      *)
BuilderLimit == 2

VARIABLES
    events,     \* the events pulled from the input so far, in arrival order
    closed,     \* the input stream has returned None
    builds,     \* request_builder: builds in progress or finished, in arrival order
    next_req,   \* the driver's pending request (at most one), not yet admitted
    in_flight,  \* requests handed to service.call whose response is unresolved
    permits,    \* free units of the ConcurrencyLimit semaphore
    usable,     \* FALSE once the inner service reports an error from poll_ready
    result,     \* "running", or the value returned by run: "Ok" / "Err"
    diags,      \* diagnostics emitted so far: a function <<kind, id>> -> count
    built,      \* id -> number of requests the builder produced for the event
    rejected,   \* id -> number of builds of the event that failed
    calls,      \* the requests passed to service.call, in call order
    outcome,    \* id -> "none" / "ack" / "error": how the publish resolved
    hc_cfg,     \* healthcheck: the configuration and the broker it is run against
    hc_pc,      \* healthcheck: "idle", "start", "spawned", "fetching", "joined", "done"
    hc_topic,   \* healthcheck: the topic option computed before the fetch
    hc_fetch,   \* healthcheck: the topic argument fetch_metadata was called with
    hc_clock,   \* healthcheck: seconds spent in fetch_metadata
    hc_join,    \* healthcheck: how the blocking task ended
    hc_result   \* healthcheck: "none", "Ok", "Err", or "panic" (the caller unwinds)

pipeline_vars == <<events, closed, builds, next_req, in_flight, permits, usable,
                   result, diags, built, rejected, calls, outcome>>

health_vars == <<hc_cfg, hc_pc, hc_topic, hc_fetch, hc_clock, hc_join, hc_result>>

vars == <<events, closed, builds, next_req, in_flight, permits, usable, result,
          diags, built, rejected, calls, outcome,
          hc_cfg, hc_pc, hc_topic, hc_fetch, hc_clock, hc_join, hc_result>>

Ids == 1..NumEvents

(* An event: the field the topic template refers to (or its absence), and  *)
(* whether the configured transformer and serializer accept the event.     *)
Services == {"absent", "auth", "db"}
Events == [service : Services, encodable : BOOLEAN]

DiagKinds == {"TemplateRenderingError", "SinkRequestBuildError", "PublishError"}

(* Template "logs-{{service}}": render_string fails when the field is      *)
(* absent, and otherwise substitutes its value.                            *)
render_string(event) ==
    IF event.service = "absent"
    THEN [ok |-> FALSE, topic |-> <<>>]
    ELSE [ok |-> TRUE, topic |-> <<"logs-", event.service>>]


(* TopicFilter with the render error ignored: the event is passed on.      *)
TopicFilterKeepsFailed(event) ==
    LET rendered == render_string(event)
    IN  [some |-> TRUE, topic |-> rendered.topic, emitted |-> 0]

(* TopicFilter that reports the render error and still passes the event. *)
TopicFilterReportsAndKeeps(event) ==
    LET rendered == render_string(event)
    IN  [some |-> TRUE, topic |-> rendered.topic,
         emitted |-> IF rendered.ok THEN 0 ELSE 1]

(* TopicFilter that pairs every event with the topic of the first one      *)
(* rendered.                                                               *)
TopicFilterStaleTopic(event) ==
    LET rendered == render_string(event)
    IN  [some |-> rendered.ok,
         topic |-> IF calls = <<>> THEN rendered.topic ELSE calls[1].topic,
         emitted |-> IF rendered.ok THEN 0 ELSE 1]

(* The topic closure of the first filter_map: a render failure emits one   *)
(* TemplateRenderingError and yields None, a success yields Some((topic,   *)
(* event)).  emitted is the number of diagnostics the closure emits.       *)
TopicFilter(event) ==
    LET rendered == render_string(event)
    IN  [some |-> rendered.ok,
         topic |-> rendered.topic,
         emitted |-> IF rendered.ok THEN 0 ELSE 1]

(* The codec applied to the event: the payload is a function of the event  *)
(* alone.                                                                  *)
encode(event) == <<"json", event.service>>

(* KafkaRequestBuilder: builds the request of (topic, event), or fails when *)
(* the transformer or the serializer rejects the event.                    *)
build_request(id, topic, event) ==
    IF event.encodable
    THEN [ok |-> TRUE, id |-> id, topic |-> topic, payload |-> encode(event)]
    ELSE [ok |-> FALSE, id |-> id, topic |-> topic, payload |-> <<>>]

(* BuildFilter with the arms of its match exchanged. *)
BuildFilterSwapped(request) ==
    [some |-> ~request.ok,
     emitted |-> IF request.ok THEN 0 ELSE 1]

(* BuildFilter that drops a failed build without a diagnostic. *)
BuildFilterSilent(request) ==
    [some |-> request.ok, emitted |-> 0]

(* The closure of the second filter_map: Err(error) emits one              *)
(* SinkRequestBuildError and yields None, Ok(req) yields Some(req).        *)
BuildFilter(request) ==
    [some |-> request.ok,
     emitted |-> IF request.ok THEN 0 ELSE 1]

(* The request as the driver and the service see it. *)
Request(request) ==
    [id |-> request.id, topic |-> request.topic, payload |-> request.payload]

(* emit!: n more diagnostics of the kind for the event. *)
Emit(d, kind, id, n) == [d EXCEPT ![<<kind, id>>] = @ + n]

(* poll_ready of the service without the ConcurrencyLimit around it. *)
poll_ready_unlimited == TRUE

(* ConcurrencyLimit::new(service, Capacity): poll_ready is ready only when *)
(* a unit of the semaphore is free.                                        *)
poll_ready == permits > 0

(* ConcurrencyLimit: call moves the acquired unit into the response future. *)
Acquire(p) == p - 1

(* Release that returns the unit only for an acknowledged publish. *)
ReleaseOnAckOnly(p, out) == IF out = "ack" THEN p + 1 ELSE p

(* ConcurrencyLimit: the unit is returned when the response future         *)
(* resolves, whatever the response.                                        *)
Release(p, out) == p + 1

(* The driver with a retry: a request whose publish failed is made the     *)
(* pending request again.                                                  *)
RetryFailed(pending, req, out) ==
    IF out = "error" /\ pending = <<>> THEN <<req>> ELSE pending

(* The driver's pending request after a response: a response, failed or    *)
(* not, is accounted and its request is gone; nothing is re-queued.        *)
AfterResponse(pending, req, out) == pending

(* StreamSink::run that swallows the outcome of run_inner. *)
run_always_ok(inner) == "Ok"

(* StreamSink::run returns what run_inner returns. *)
run(inner) == inner

(***************************************************************************)
(* healthcheck                                                             *)
(***************************************************************************)

(* Longest time, in seconds, a broker takes to answer a metadata request. *)
MaxDelay == 4

(* Duration::from_secs(3), the timeout given to fetch_metadata. *)
FetchTimeoutSecs == 3

None == <<>>
Some(x) == <<x>>

(* The topic templates a configuration may hold: a literal topic, or the   *)
(* template "logs-{{service}}".                                            *)
Templates == {"logs", "logs-{{service}}"}

(* What the broker does with a metadata request. *)
Brokers == {"up", "unreachable", "refuses", "rejects_credentials"}

(* A configuration, and the environment the probe runs in: whether         *)
(* to_rdkafka accepts the configuration, whether the consumer can be       *)
(* created from it, and how and when the broker answers.                   *)
Configs == [topic : Templates, to_rdkafka_ok : BOOLEAN, create_ok : BOOLEAN,
            broker : Brokers, delay : 0..MaxDelay]

NoConfig == [topic |-> "logs", to_rdkafka_ok |-> TRUE, create_ok |-> TRUE,
             broker |-> "up", delay |-> 0]

(* LogEvent::from_str_legacy(""): an event without the service field. *)
EmptyEvent == [service |-> "absent", encodable |-> TRUE]

(* Template::render_string of a configured template. *)
render(template, event) ==
    IF template = "logs"
    THEN [ok |-> TRUE, topic |-> <<"logs">>]
    ELSE render_string(event)

(* healthcheck that gives up when the topic does not render. *)
health_topic_strict(cfg) ==
    LET rendered == render(cfg.topic, EmptyEvent)
    IN  [proceed |-> rendered.ok,
         topic |-> IF rendered.ok THEN Some(rendered.topic) ELSE None]

(* The match on config.topic.render_string(..): Some(topic), or a warning  *)
(* and None; the probe goes on in both cases.                              *)
health_topic(cfg) ==
    LET rendered == render(cfg.topic, EmptyEvent)
    IN  [proceed |-> TRUE,
         topic |-> IF rendered.ok THEN Some(rendered.topic) ELSE None]

(* fetch_metadata given a timeout longer than any broker takes. *)
metadata_timeout_long == MaxDelay + 2

(* The timeout passed to fetch_metadata. *)
metadata_timeout == FetchTimeoutSecs

(* The broker has answered the request after clock seconds. *)
Answered(cfg, clock) == cfg.broker # "unreachable" /\ cfg.delay <= clock

(* consumer.fetch_metadata(topic, timeout).map(|_| ()): the broker's       *)
(* answer if it came before the timeout, and a timeout error otherwise.    *)
fetch_metadata(cfg, clock) ==
    IF Answered(cfg, clock) /\ clock < metadata_timeout
    THEN CASE cfg.broker = "up" -> "Ok"
           [] cfg.broker = "refuses" -> "ConnectionError"
           [] cfg.broker = "rejects_credentials" -> "AuthenticationError"
    ELSE "TimedOut"

(* `.await??`: a JoinError of the blocking task and an error of the fetch  *)
(* both become the Err of healthcheck.                                     *)
join_result(join) == IF join = "Ok" THEN "Ok" ELSE "Err"

(* A builder whose slots are unlimited. *)
builder_unbounded == TRUE

(* A builder that starts a build only while the service has a free unit. *)
builder_waits_for_unit == Len(builds) < BuilderLimit /\ permits > 0

(* request_builder(limit, builder): a new build is started only while      *)
(* fewer than limit builds are held.                                       *)
builder_has_slot == Len(builds) < BuilderLimit

(* A builder that yields its newest build first. *)
yield_newest == Len(builds)

(* request_builder yields its results in the order of its input: the build *)
(* yielded next is the oldest one held.                                    *)
yield_index == 1

(* The builds held, without the one at index k. *)
WithoutBuild(k) ==
    [i \in 1..(Len(builds) - 1) |-> IF i < k THEN builds[i] ELSE builds[i + 1]]

(* No healthcheck is running. *)
HealthIdle ==
    /\ hc_cfg = NoConfig
    /\ hc_pc = "idle"
    /\ hc_topic = None
    /\ hc_fetch = None
    /\ hc_clock = 0
    /\ hc_join = "none"
    /\ hc_result = "none"

Init ==
    /\ events = <<>>
    /\ closed = FALSE
    /\ builds = <<>>
    /\ next_req = <<>>
    /\ in_flight = {}
    /\ permits = Capacity
    /\ usable = TRUE
    /\ result = "running"
    /\ diags = [d \in DiagKinds \X Ids |-> 0]
    /\ built = [i \in Ids |-> 0]
    /\ rejected = [i \in Ids |-> 0]
    /\ calls = <<>>
    /\ outcome = [i \in Ids |-> "none"]
    /\ HealthIdle

(* request_builder polls the input while it has a free build slot: the     *)
(* next event goes through the topic closure and, if it renders, its build *)
(* is started.                                                             *)
PullEvent(event) ==
    /\ result = "running"
    /\ ~closed
    /\ Len(events) < NumEvents
    /\ builder_has_slot
    /\ LET id == Len(events) + 1
           f == TopicFilter(event)
       IN  /\ events' = Append(events, event)
           /\ diags' = Emit(diags, "TemplateRenderingError", id, f.emitted)
           /\ builds' = IF f.some
                        THEN Append(builds, [id |-> id, topic |-> f.topic,
                                             event |-> event, state |-> "running",
                                             request |-> <<>>])
                        ELSE builds
    /\ UNCHANGED <<closed, next_req, in_flight, permits, usable, result,
                   built, rejected, calls, outcome>>
    /\ UNCHANGED health_vars

(* The input stream ends. *)
Close ==
    /\ result = "running"
    /\ ~closed
    /\ closed' = TRUE
    /\ UNCHANGED <<events, builds, next_req, in_flight, permits, usable, result,
                   diags, built, rejected, calls, outcome>>
    /\ UNCHANGED health_vars

(* One of the concurrent builds finishes, in any order. *)
BuildFinish(i) ==
    /\ result = "running"
    /\ i \in 1..Len(builds)
    /\ builds[i].state = "running"
    /\ LET b == builds[i]
           request == build_request(b.id, b.topic, b.event)
       IN  /\ builds' = [builds EXCEPT ![i].state = "done",
                                       ![i].request = <<request>>]
           /\ built' = [built EXCEPT ![b.id] = @ + (IF request.ok THEN 1 ELSE 0)]
           /\ rejected' = [rejected EXCEPT ![b.id] = @ + (IF request.ok THEN 0 ELSE 1)]
    /\ UNCHANGED <<events, closed, next_req, in_flight, permits, usable, result,
                   diags, calls, outcome>>
    /\ UNCHANGED health_vars

(* The driver, holding no pending request, polls its input: the oldest     *)
(* build, once finished, goes through the build-error closure and, if it   *)
(* is a request, becomes the driver's pending request.                     *)
TakeBuilt ==
    /\ result = "running"
    /\ next_req = <<>>
    /\ builds # <<>>
    /\ builds[yield_index].state = "done"
    /\ LET request == Head(builds[yield_index].request)
           f == BuildFilter(request)
       IN  /\ diags' = Emit(diags, "SinkRequestBuildError", request.id, f.emitted)
           /\ next_req' = IF f.some THEN <<Request(request)>> ELSE <<>>
    /\ builds' = WithoutBuild(yield_index)
    /\ UNCHANGED <<events, closed, in_flight, permits, usable, result,
                   built, rejected, calls, outcome>>
    /\ UNCHANGED health_vars

(* The driver admits its pending request: the service is ready, a unit is  *)
(* taken and the request is passed to service.call.                        *)
Dispatch ==
    /\ result = "running"
    /\ next_req # <<>>
    /\ poll_ready
    /\ usable
    /\ permits' = Acquire(permits)
    /\ in_flight' = in_flight \cup {Head(next_req)}
    /\ calls' = Append(calls, Head(next_req))
    /\ next_req' = <<>>
    /\ UNCHANGED <<events, closed, builds, usable, result, diags, built, rejected, outcome>>
    /\ UNCHANGED health_vars

(* A publish resolves, with an acknowledgement or an error. *)
Resolve(req, out) ==
    /\ result = "running"
    /\ req \in in_flight
    /\ in_flight' = in_flight \ {req}
    /\ permits' = Release(permits, out)
    /\ outcome' = [outcome EXCEPT ![req.id] = out]
    /\ diags' = Emit(diags, "PublishError", req.id, IF out = "error" THEN 1 ELSE 0)
    /\ next_req' = AfterResponse(next_req, req, out)
    /\ UNCHANGED <<events, closed, builds, usable, result, built, rejected, calls>>
    /\ UNCHANGED health_vars

(* The inner service stops being usable: from now on its poll_ready        *)
(* reports an error.                                                       *)
ServiceBreak ==
    /\ result = "running"
    /\ usable
    /\ usable' = FALSE
    /\ UNCHANGED <<events, closed, builds, next_req, in_flight, permits, result,
                   diags, built, rejected, calls, outcome>>
    /\ UNCHANGED health_vars

(* The driver asks a broken service for readiness: the run fails. *)
Fatal ==
    /\ result = "running"
    /\ next_req # <<>>
    /\ poll_ready
    /\ ~usable
    /\ result' = run("Err")
    /\ UNCHANGED <<events, closed, builds, next_req, in_flight, permits, usable,
                   diags, built, rejected, calls, outcome>>
    /\ UNCHANGED health_vars

(* Finish that does not wait for the outstanding publishes. *)
FinishWithoutDrain ==
    /\ result = "running"
    /\ closed
    /\ builds = <<>>
    /\ next_req = <<>>
    /\ result' = run("Ok")
    /\ UNCHANGED <<events, closed, builds, next_req, in_flight, permits, usable,
                   diags, built, rejected, calls, outcome>>
    /\ UNCHANGED health_vars

(* The input is exhausted and nothing is pending or in flight: run returns *)
(* Ok(()).                                                                 *)
Finish ==
    /\ result = "running"
    /\ closed
    /\ builds = <<>>
    /\ next_req = <<>>
    /\ in_flight = {}
    /\ result' = run("Ok")
    /\ UNCHANGED <<events, closed, builds, next_req, in_flight, permits, usable,
                   diags, built, rejected, calls, outcome>>
    /\ UNCHANGED health_vars

(* healthcheck up to spawn_blocking: to_rdkafka(..).unwrap() panics in the *)
(* caller when the configuration is rejected; otherwise the topic option   *)
(* is computed and the blocking task is spawned.                           *)
HcStart ==
    /\ hc_pc = "start"
    /\ IF ~hc_cfg.to_rdkafka_ok
       THEN /\ hc_result' = "panic"
            /\ hc_pc' = "done"
            /\ UNCHANGED hc_topic
       ELSE LET t == health_topic(hc_cfg)
            IN  /\ hc_topic' = t.topic
                /\ hc_pc' = IF t.proceed THEN "spawned" ELSE "done"
                /\ hc_result' = IF t.proceed THEN hc_result ELSE "Err"
    /\ UNCHANGED <<hc_cfg, hc_fetch, hc_clock, hc_join>>
    /\ UNCHANGED pipeline_vars

(* The blocking task: client.create().unwrap() panics inside the task when *)
(* the consumer cannot be created; otherwise fetch_metadata is called with *)
(* the topic option.                                                       *)
HcCreate ==
    /\ hc_pc = "spawned"
    /\ IF ~hc_cfg.create_ok
       THEN /\ hc_join' = "Panicked"
            /\ hc_pc' = "joined"
            /\ UNCHANGED <<hc_fetch, hc_clock>>
       ELSE /\ hc_fetch' = <<hc_topic>>
            /\ hc_clock' = 0
            /\ hc_pc' = "fetching"
            /\ UNCHANGED hc_join
    /\ UNCHANGED <<hc_cfg, hc_topic, hc_result>>
    /\ UNCHANGED pipeline_vars

(* A second passes inside fetch_metadata: no answer yet, timeout not       *)
(* reached.                                                                *)
HcTick ==
    /\ hc_pc = "fetching"
    /\ ~Answered(hc_cfg, hc_clock)
    /\ hc_clock < metadata_timeout
    /\ hc_clock' = hc_clock + 1
    /\ UNCHANGED <<hc_cfg, hc_pc, hc_topic, hc_fetch, hc_join, hc_result>>
    /\ UNCHANGED pipeline_vars

(* fetch_metadata returns: the broker has answered or the timeout is       *)
(* reached, and the blocking task ends with the result.                    *)
HcFetchReturn ==
    /\ hc_pc = "fetching"
    /\ Answered(hc_cfg, hc_clock) \/ hc_clock >= metadata_timeout
    /\ hc_join' = fetch_metadata(hc_cfg, hc_clock)
    /\ hc_pc' = "joined"
    /\ UNCHANGED <<hc_cfg, hc_topic, hc_fetch, hc_clock, hc_result>>
    /\ UNCHANGED pipeline_vars

(* The caller is resumed with the outcome of the blocking task. *)
HcAwait ==
    /\ hc_pc = "joined"
    /\ hc_result' = join_result(hc_join)
    /\ hc_pc' = "done"
    /\ UNCHANGED <<hc_cfg, hc_topic, hc_fetch, hc_clock, hc_join>>
    /\ UNCHANGED pipeline_vars

Next ==
    \/ \E event \in Events : PullEvent(event)
    \/ Close
    \/ \E i \in 1..Len(builds) : BuildFinish(i)
    \/ TakeBuilt
    \/ Dispatch
    \/ \E req \in in_flight, out \in {"ack", "error"} : Resolve(req, out)
    \/ ServiceBreak
    \/ Fatal
    \/ Finish

Spec == Init /\ [][Next]_vars

(* The scheduler runs every task that can make progress: a started build   *)
(* finishes, the driver loop takes its enabled branch, and the service     *)
(* resolves every publish it was given.  The input is not required to      *)
(* deliver or to end.                                                      *)
Fairness ==
    /\ WF_vars(\E i \in 1..Len(builds) : BuildFinish(i))
    /\ WF_vars(TakeBuilt)
    /\ WF_vars(Dispatch)
    /\ WF_vars(\E req \in in_flight, out \in {"ack", "error"} : Resolve(req, out))
    /\ WF_vars(Fatal)
    /\ WF_vars(Finish)

FairSpec == Spec /\ Fairness

PipelineIdle ==
    /\ events = <<>>
    /\ closed = FALSE
    /\ builds = <<>>
    /\ next_req = <<>>
    /\ in_flight = {}
    /\ permits = Capacity
    /\ usable = TRUE
    /\ result = "running"
    /\ diags = [d \in DiagKinds \X Ids |-> 0]
    /\ built = [i \in Ids |-> 0]
    /\ rejected = [i \in Ids |-> 0]
    /\ calls = <<>>
    /\ outcome = [i \in Ids |-> "none"]

(* healthcheck(config) is called, the pipeline not yet running. *)
HealthInit ==
    /\ PipelineIdle
    /\ hc_cfg \in Configs
    /\ hc_pc = "start"
    /\ hc_topic = None
    /\ hc_fetch = None
    /\ hc_clock = 0
    /\ hc_join = "none"
    /\ hc_result = "none"

HealthNext ==
    \/ HcStart
    \/ HcCreate
    \/ HcTick
    \/ HcFetchReturn
    \/ HcAwait

HealthSpec == HealthInit /\ [][HealthNext]_vars

(* The caller's task and the blocking task are both run, and time passes. *)
HealthFairSpec == HealthSpec /\ WF_vars(HealthNext)

(***************************************************************************)
(* Properties                                                              *)
(***************************************************************************)

Pulled == 1..Len(events)
Renders(id) == render_string(events[id]).ok
Encodes(id) == events[id].encodable
InBuilder(id) == \E i \in 1..Len(builds) : builds[i].id = id
Pending(id) == \E i \in 1..Len(next_req) : next_req[i].id = id
Outstanding(id) == \E req \in in_flight : req.id = id
CallsOf(id) == Cardinality({i \in 1..Len(calls) : calls[i].id = id})
Diag(kind, id) == diags[<<kind, id>>]

(* C1: the requests passed to service.call and not yet resolved never      *)
(* number more than the capacity of the ConcurrencyLimit.                  *)
C1_OutstandingWithinBudget == Cardinality(in_flight) <= Capacity

(* The budget is exhausted while one more request waits for admission. *)
C1_Witness == Cardinality(in_flight) = Capacity /\ next_req # <<>>

(* C2: an event whose topic does not render is dropped by the topic        *)
(* closure: it never enters the builder, no request is produced or passed  *)
(* to the service for it, exactly one TemplateRenderingError is emitted    *)
(* for it, and the step that drops it neither ends the input nor the run   *)
(* nor disturbs the events already in the pipeline.                        *)
C2_RenderFailureState ==
    \A id \in Pulled :
        ~Renders(id) =>
            /\ Diag("TemplateRenderingError", id) = 1
            /\ Diag("SinkRequestBuildError", id) = 0
            /\ ~InBuilder(id) /\ ~Pending(id) /\ ~Outstanding(id)
            /\ built[id] = 0 /\ rejected[id] = 0
            /\ CallsOf(id) = 0
            /\ outcome[id] = "none"

C2_RenderFailureStep ==
    (Len(events') = Len(events) + 1 /\ ~render_string(events'[Len(events')]).ok)
        => /\ result' = "running"
           /\ closed' = closed
           /\ builds' = builds
           /\ next_req' = next_req
           /\ in_flight' = in_flight

C2_RenderFailureDropsOnlyTheEvent ==
    []C2_RenderFailureState /\ [][C2_RenderFailureStep]_vars

(* An event failed to render and a later event of the input was published. *)
C2_Witness ==
    \E id \in Pulled, later \in Pulled :
        /\ id < later
        /\ ~Renders(id)
        /\ Diag("TemplateRenderingError", id) = 1
        /\ outcome[later] = "ack"

(* C3: an event that renders and whose build fails is built once, gets     *)
(* exactly one SinkRequestBuildError when its result leaves the builder,   *)
(* is never pending at or passed to the service, and the step that drops   *)
(* it leaves the run going.                                                *)
C3_BuildFailureState ==
    \A id \in Pulled :
        (Renders(id) /\ ~Encodes(id)) =>
            /\ built[id] = 0
            /\ rejected[id] <= 1
            /\ Diag("TemplateRenderingError", id) = 0
            /\ Diag("SinkRequestBuildError", id) = (IF InBuilder(id) THEN 0 ELSE 1)
            /\ (~InBuilder(id) => rejected[id] = 1)
            /\ ~Pending(id) /\ ~Outstanding(id)
            /\ CallsOf(id) = 0
            /\ outcome[id] = "none"

C3_BuildFailureStep ==
    (\E id \in Ids : Diag("SinkRequestBuildError", id)' > Diag("SinkRequestBuildError", id))
        => /\ result' = "running"
           /\ closed' = closed
           /\ next_req' = <<>>
           /\ in_flight' = in_flight

C3_BuildFailureDropsOnlyTheEvent ==
    []C3_BuildFailureState /\ [][C3_BuildFailureStep]_vars

(* A build failed, was reported once, and a later event was published. *)
C3_Witness ==
    \E id \in Pulled, later \in Pulled :
        /\ id < later
        /\ Renders(id) /\ ~Encodes(id)
        /\ rejected[id] = 1
        /\ Diag("SinkRequestBuildError", id) = 1
        /\ outcome[later] = "ack"

(* C4: for an event that renders and encodes, the builder produces at most *)
(* one request, and exactly one once the event has left the builder; that  *)
(* request is then pending at the driver or has been passed to the         *)
(* service, and no drop diagnostic is emitted for the event.               *)
C4_ExactlyOneRequest ==
    \A id \in Pulled :
        (Renders(id) /\ Encodes(id)) =>
            /\ built[id] <= 1
            /\ rejected[id] = 0
            /\ (~InBuilder(id) => built[id] = 1 /\ (Pending(id) \/ CallsOf(id) >= 1))
            /\ Diag("TemplateRenderingError", id) = 0
            /\ Diag("SinkRequestBuildError", id) = 0

(* Two builds run concurrently and the later one has finished first, next  *)
(* to a dropped event: the finished build has produced its one request.    *)
C4_Witness ==
    /\ Len(builds) = 2
    /\ builds[1].state = "running"
    /\ builds[2].state = "done"
    /\ Renders(builds[2].id) /\ Encodes(builds[2].id)
    /\ built[builds[2].id] = 1
    /\ \E c \in Pulled : ~Renders(c)

Resolved(id) == outcome[id] # "none"

(* C5: a request is passed to service.call at most once, only if the       *)
(* builder produced it, and never while it is still pending; once its      *)
(* publish has resolved, failed or not, the driver holds it nowhere and    *)
(* does not call the service for it again; and when the run returns Ok     *)
(* every request produced has been passed to the service exactly once.     *)
C5_DispatchedExactlyOnce ==
    \A id \in Ids :
        /\ CallsOf(id) <= 1
        /\ CallsOf(id) <= built[id]
        /\ Pending(id) => (built[id] = 1 /\ CallsOf(id) = 0)
        /\ Outstanding(id) => (CallsOf(id) = 1 /\ ~Resolved(id))
        /\ Resolved(id) =>
              (CallsOf(id) = 1 /\ ~Pending(id) /\ ~Outstanding(id) /\ ~InBuilder(id))
        /\ result = "Ok" => CallsOf(id) = built[id]

(* A publish failed, the run went on to the end, and the failed request    *)
(* was passed to the service once.                                         *)
C5_Witness ==
    /\ result = "Ok"
    /\ \E id \in Pulled : outcome[id] = "error" /\ CallsOf(id) = 1
    /\ \E id \in Pulled : outcome[id] = "ack" /\ CallsOf(id) = 1

(* C6: run returns Ok only when the input has ended, no build is left in   *)
(* the builder, no request is pending, no publish is outstanding and every *)
(* request passed to the service has resolved.                             *)
C6_OkOnlyWhenDrained ==
    result = "Ok" =>
        /\ closed
        /\ builds = <<>>
        /\ next_req = <<>>
        /\ in_flight = {}
        /\ \A i \in 1..Len(calls) : Resolved(calls[i].id)

(* The run returned Ok after every event of a full input was published. *)
C6_Witness ==
    /\ result = "Ok"
    /\ Len(calls) = NumEvents
    /\ \A id \in Pulled : Resolved(id)

(* C7: while every unit of the budget is held, the pending request stays   *)
(* pending: it is neither dropped nor passed to the service; the service   *)
(* is called only from a state with a free unit, which after exhaustion    *)
(* only a resolved publish provides; and a pending request is eventually   *)
(* passed to the service, unless the run fails first.                      *)
C7_HeldWhileExhausted ==
    (next_req # <<>> /\ permits = 0)
        => (next_req' = next_req /\ calls' = calls /\ result' = "running")

C7_CallNeedsFreeUnit ==
    calls' # calls
        => (permits > 0 /\ Cardinality(in_flight) < Capacity /\ next_req # <<>>
            /\ calls' = Append(calls, Head(next_req)))

C7_Backpressure ==
    /\ [][C7_HeldWhileExhausted]_vars
    /\ [][C7_CallNeedsFreeUnit]_vars
    /\ \A id \in Ids : Pending(id) ~> (CallsOf(id) = 1 \/ result = "Err")

(* One more request than the budget holds has been passed to the service:  *)
(* one publish has resolved, and the budget is exhausted again.            *)
C7_Witness ==
    /\ Len(calls) = Capacity + 1
    /\ Cardinality(in_flight) = Capacity
    /\ Cardinality({id \in Ids : Resolved(id)}) = 1

(* C8: the free units and the outstanding publishes always add up to the   *)
(* capacity: a unit is taken by each call of the service and returned by   *)
(* the resolution of that publish, acknowledged or failed, and by nothing  *)
(* else.                                                                   *)
C8_UnitsAccounted ==
    /\ permits \in 0..Capacity
    /\ permits + Cardinality(in_flight) = Capacity
    /\ Len(calls) = Cardinality(in_flight) + Cardinality({id \in Ids : Resolved(id)})

(* A publish has failed while another is outstanding. *)
C8_Witness ==
    /\ \E id \in Ids : outcome[id] = "error"
    /\ in_flight # {}
    /\ permits = Capacity - 1

(* C9: once the input has ended, a publish stops being outstanding only by *)
(* resolving; the end of the input changes neither the outstanding         *)
(* publishes nor the run's result; run returns Ok only after every         *)
(* outstanding publish has resolved; and the run then terminates.          *)
C9_LeavesOnlyResolved ==
    \A req \in in_flight :
        req \notin in_flight' =>
            (outcome[req.id] = "none" /\ outcome'[req.id] # "none")

C9_CloseStep ==
    (~closed /\ closed') => (in_flight' = in_flight /\ result' = result)

C9_DrainOnClose ==
    /\ [][C9_LeavesOnlyResolved]_vars
    /\ [][C9_CloseStep]_vars
    /\ [](result = "Ok" => (in_flight = {} /\ \A i \in 1..Len(calls) : Resolved(calls[i].id)))
    /\ (closed ~> result # "running")

(* The input has ended with the budget full of outstanding publishes. *)
C9_Witness ==
    /\ closed
    /\ result = "running"
    /\ Cardinality(in_flight) = Capacity

(* C10: a failed publish is recorded with one PublishError diagnostic, its *)
(* request is not passed to the service again, the step leaves the run     *)
(* going with its pending request and builds untouched, and the run fails  *)
(* only when the service is unusable.                                      *)
C10_FailureRecorded ==
    /\ \A id \in Ids :
          /\ Diag("PublishError", id) = (IF outcome[id] = "error" THEN 1 ELSE 0)
          /\ outcome[id] = "error" =>
                (CallsOf(id) = 1 /\ ~Pending(id) /\ ~Outstanding(id))
    /\ result = "Err" => ~usable

C10_FailureStep ==
    (\E id \in Ids : outcome[id] = "none" /\ outcome'[id] = "error")
        => (result' = "running" /\ next_req' = next_req /\ builds' = builds
            /\ calls' = calls)

C10_PublishErrorDoesNotEscalate ==
    []C10_FailureRecorded /\ [][C10_FailureStep]_vars

(* The first publish failed, a later request was passed to the service     *)
(* after it and acknowledged, and the run returned Ok.                     *)
C10_Witness ==
    /\ result = "Ok"
    /\ usable
    /\ Len(calls) = NumEvents
    /\ outcome[calls[1].id] = "error"
    /\ outcome[calls[NumEvents].id] = "ack"

RunningBuilds == {i \in 1..Len(builds) : builds[i].state = "running"}

(* C11: once the service is unusable no request is passed to it any more;  *)
(* a run that would have to ask it for readiness does not return Ok; a     *)
(* run returns Ok with an unusable service only if every request produced  *)
(* had been passed to the service, so that it was never asked again; and   *)
(* a request pending at an unusable service leads to the run returning     *)
(* Err.                                                                    *)
C11_NoCallWhenUnusable == ~usable => calls' = calls

C11_NeverOkWhenAsked ==
    (~usable /\ next_req # <<>>) => result' # "Ok"

C11_OkMeansNeverRefused ==
    (result = "Ok" /\ ~usable) =>
        /\ next_req = <<>>
        /\ \A id \in Ids : CallsOf(id) = built[id]

C11_UnusableServiceIsFatal ==
    /\ [][C11_NoCallWhenUnusable]_vars
    /\ [][C11_NeverOkWhenAsked]_vars
    /\ []C11_OkMeansNeverRefused
    /\ ((~usable /\ next_req # <<>>) ~> result = "Err")

(* The run returned Err with a request still pending and another publish   *)
(* outstanding.                                                            *)
C11_Witness ==
    /\ result = "Err"
    /\ ~usable
    /\ next_req # <<>>
    /\ in_flight # {}

(* C12: the requests are passed to the service in the arrival order of     *)
(* their events.                                                           *)
C12_AdmittedInArrivalOrder ==
    /\ \A i \in 1..Len(calls), j \in 1..Len(calls) :
          i < j => calls[i].id < calls[j].id
    /\ \A i \in 1..Len(calls), id \in Ids :
          (Pending(id) \/ InBuilder(id)) => calls[i].id < id
    /\ \A i \in 1..Len(builds), id \in Ids :
          Pending(id) => id < builds[i].id

(* Two requests were passed to the service in arrival order and the later  *)
(* publish resolved first.                                                 *)
C12_Witness ==
    /\ Len(calls) = 2
    /\ Resolved(calls[2].id)
    /\ ~Resolved(calls[1].id)

OwnTopic(id, topic) == topic = render_string(events[id]).topic

C19_TopicOfOwnEvent ==
    /\ \A i \in 1..Len(calls) :
          /\ calls[i].id \in Pulled
          /\ OwnTopic(calls[i].id, calls[i].topic)
          /\ calls[i].payload = encode(events[calls[i].id])
    /\ \A i \in 1..Len(builds) :
          /\ OwnTopic(builds[i].id, builds[i].topic)
          /\ builds[i].event = events[builds[i].id]
    /\ \A i \in 1..Len(next_req) : OwnTopic(next_req[i].id, next_req[i].topic)
    /\ \A req \in in_flight : OwnTopic(req.id, req.topic)

(* Two requests with different topics were passed to the service, the      *)
(* second one's publish resolving first.                                   *)
C19_Witness ==
    /\ Len(calls) >= 2
    /\ calls[1].topic # calls[2].topic
    /\ Resolved(calls[2].id)
    /\ Outstanding(calls[1].id)

(* C20: every pulled event has at most one of the four outcomes, and       *)
(* exactly one when the run has returned Ok; an event that failed to       *)
(* render was never given to the builder.                                  *)
Outcomes(id) ==
    Diag("TemplateRenderingError", id) + Diag("SinkRequestBuildError", id)
      + (IF outcome[id] = "ack" THEN 1 ELSE 0)
      + (IF outcome[id] = "error" THEN 1 ELSE 0)

RECURSIVE SumOutcomes(_)
SumOutcomes(n) == IF n = 0 THEN 0 ELSE Outcomes(n) + SumOutcomes(n - 1)

C20_EventConservation ==
    /\ \A id \in Ids : Outcomes(id) <= 1
    /\ \A id \in Ids \ Pulled : Outcomes(id) = 0
    /\ \A id \in Pulled :
          Diag("TemplateRenderingError", id) = 1
              => (built[id] = 0 /\ rejected[id] = 0
                  /\ Diag("SinkRequestBuildError", id) = 0)
    /\ result = "Ok" =>
          /\ \A id \in Pulled : Outcomes(id) = 1
          /\ SumOutcomes(NumEvents) = Len(events)

(* The run returned Ok on an input with a render drop, a build drop and a   *)
(* failed publish.                                                         *)
C20_Witness ==
    /\ result = "Ok"
    /\ Len(events) = NumEvents
    /\ \E id \in Pulled : Diag("TemplateRenderingError", id) = 1
    /\ \E id \in Pulled : Diag("SinkRequestBuildError", id) = 1
    /\ \E id \in Pulled : outcome[id] = "error"

(* The metadata fetch of the probe succeeded before the timeout. *)
FetchSucceeds(cfg) == cfg.broker = "up" /\ cfg.delay < FetchTimeoutSecs

(* C15: healthcheck returns Ok only if the metadata fetch succeeded before *)
(* the timeout, and every other way it ends is an Err returned to the      *)
(* caller: the caller is never unwound by a panic.                         *)
C15_EveryFailureIsErr ==
    /\ hc_result # "panic"
    /\ hc_result = "Ok" => (hc_join = "Ok" /\ FetchSucceeds(hc_cfg))
    /\ (hc_pc = "done" /\ ~(hc_cfg.to_rdkafka_ok /\ hc_cfg.create_ok
                            /\ FetchSucceeds(hc_cfg)))
          => hc_result = "Err"

(* C16: when the topic does not render against the empty event, the probe  *)
(* goes on with no topic: fetch_metadata is called with None, and the      *)
(* result is Ok exactly when that fetch succeeds before the timeout.       *)
C16_UnscopedProbe ==
    (~render(hc_cfg.topic, EmptyEvent).ok /\ hc_cfg.to_rdkafka_ok) =>
        /\ hc_pc # "start" => hc_topic = None
        /\ hc_pc = "fetching" => hc_fetch = Some(None)
        /\ (hc_pc = "done" /\ hc_cfg.create_ok) =>
              /\ hc_fetch = Some(None)
              /\ hc_result = (IF FetchSucceeds(hc_cfg) THEN "Ok" ELSE "Err")

(* The topic did not render, the fetch was made without a topic and the    *)
(* probe returned Ok.                                                      *)
C16_Witness ==
    /\ hc_pc = "done"
    /\ ~render(hc_cfg.topic, EmptyEvent).ok
    /\ hc_fetch = Some(None)
    /\ hc_result = "Ok"

(* C17: fetch_metadata never takes longer than its timeout, a probe of an  *)
(* unreachable broker ends with Err when the timeout is reached, and every *)
(* probe ends.                                                             *)
C17_ClockWithinTimeout == hc_clock <= FetchTimeoutSecs

C17_UnreachableIsErrAtTimeout ==
    (hc_pc = "done" /\ hc_cfg.broker = "unreachable"
       /\ hc_cfg.to_rdkafka_ok /\ hc_cfg.create_ok)
        => (hc_result = "Err" /\ hc_join = "TimedOut"
            /\ hc_clock = FetchTimeoutSecs)

C17_ProbeTerminates ==
    /\ []C17_ClockWithinTimeout
    /\ []C17_UnreachableIsErrAtTimeout
    /\ <>(hc_pc = "done" /\ hc_result # "none")

(* The probe of an unreachable broker has returned Err after the timeout. *)
C17_Witness ==
    /\ hc_pc = "done"
    /\ hc_cfg.broker = "unreachable"
    /\ hc_clock = FetchTimeoutSecs
    /\ hc_result = "Err"

====
